---- MODULE Spec2Model ----
(***************************************************************************)
(* ADS-B log analyzer (src/prog1.py): the ingestion loop of __main__.      *)
(* One action processes one line of the log: DF / address decoding, the    *)
(* first/last-seen update, and the per-typecode extraction with the        *)
(* two-slot CPR pair buffer.                                               *)
(*                                                                         *)
(* Python values are modelled as follows.                                  *)
(*   dict                a function whose DOMAIN is the set of keys        *)
(*   list                a sequence                                        *)
(*   None / optional v   None == <<>>, a present scalar v is <<v>>         *)
(*   str (iterated)      a sequence of one-character strings               *)
(*   message_str         the record of what pyModeS decodes from the hex   *)
(*                       payload (pyModeS is an external library; every    *)
(*                       pms.* call is a projection of that record, or     *)
(*                       raises when the record says so)                   *)
(*   float timestamps    integers (seconds)                                *)
(***************************************************************************)
EXTENDS Integers, Sequences, FiniteSets, TLC

VARIABLES
    pc,                         \* where __main__ is: "ingest", "done", "failed"
                                \* (and "parse", "parsed" around one parse_ads_b_line call)
    args_aircraft,              \* args.aircraft
    stdout,                     \* what has been printed, in order
    icao_list,                  \* IcaoGraphs.icao_list
    icao_index,                 \* IcaoGraphs.icao_index (None while the attribute is not set)
    plot_mode_idx,              \* IcaoGraphs.plot_mode_idx (None while the attribute is not set)
    clicks,                     \* observation only: the events of the window, in order, each
                                \* with the handler it reached and the two indices before it
    line,                       \* the argument of the parse_ads_b_line call
    parsed,                     \* what that call returned
    line_num,                   \* lines consumed so far (enumerate(f, 1))
    target_icao,                \* args.aircraft.upper() or None
    msg_timestamp,              \* msg.timestamp of the last frame that passed the filters
    message_str,                \* message_str of that frame
    icao_times,
    icao_altitude,
    icao_speed,
    icao_callsigns,
    icao_selected_altitude,
    icao_altitude_difference,
    icao_baro_correction,
    icao_has_selected_alt,
    adsb_icao_list,
    icao_positions,
    icao_courses,
    cpr_messages,
    \* observation only (never read by the program):
    line_end,                   \* where the last line's processing ended
    slot_line,                  \* per aircraft, the line numbers of the frames in the two slots
    attempts,                   \* every pairing attempt (both slots filled), in order
    seen_ts                     \* per aircraft, the timestamps of its frames that passed the filters

vars == <<pc, args_aircraft, stdout, icao_list, icao_index, plot_mode_idx, clicks,
          line, parsed, line_num, target_icao, msg_timestamp, message_str, icao_times,
          icao_altitude, icao_speed, icao_callsigns, icao_selected_altitude,
          icao_altitude_difference, icao_baro_correction, icao_has_selected_alt,
          adsb_icao_list, icao_positions, icao_courses, cpr_messages,
          line_end, slot_line, attempts, seen_ts>>

-----------------------------------------------------------------------------
(* Bounds of the model *)

MaxLines == 2
MaxCprLines == 3
MaxLineLen == 5
MaxRunLines == 2
MaxEvents == 3

(* Program constants *)

CprWindow == 10
MAX_MESSAGE_LENGTH == 14

-----------------------------------------------------------------------------
(* Python values *)

None == <<>>
Some(v) == <<v>>

Abs(x) == IF x < 0 THEN -x ELSE x

\* dict: d[k] = v
Put(d, k, v) == [x \in (DOMAIN d) \cup {k} |-> IF x = k THEN v ELSE d[x]]
\* dict.get(k, default)
Get(d, k, default) == IF k \in DOMAIN d THEN d[k] ELSE default
\* dict.setdefault(k, default), for its effect on the dict
SetDefault(d, k, default) == IF k \in DOMAIN d THEN d ELSE Put(d, k, default)

\* mutant: the new entry replaces the series
ListAppend_Replace(d, k, e) == Put(d, k, <<e>>)

\* d.setdefault(k, []).append(e)
ListAppend(d, k, e) == Put(d, k, Append(Get(d, k, <<>>), e))

-----------------------------------------------------------------------------
(* The decoder (pyModeS), as projections of the decoded payload *)

Raises(m, op) == op \in m.raises

pms_df(m) == m.df
pms_icao(m) == m.icao
pms_adsb_typecode(m) == m.tc
pms_adsb_oe_flag(m) == m.oe

\* Stand-in for pms.adsb.position: a deterministic function of its four
\* arguments that depends on their order and on which frame is the later
\* one, and yields None when the two frames lie in different zones.
pms_adsb_position(msg0, msg1, t0, t1) ==
    IF msg0.cpr \div 2 # msg1.cpr \div 2
    THEN None
    ELSE <<10 * msg0.cpr + msg1.cpr, IF t0 >= t1 THEN msg0.cpr ELSE -msg1.cpr>>

-----------------------------------------------------------------------------
(* Field extraction: the get_* functions. Each one wraps its decoder calls *)
(* in try/except and turns any exception into None.                        *)

\* mutant: the bounds are excluded
InRange_Exclusive(lo, v, hi) == lo < v /\ v < hi

\* lo <= v <= hi, the chained comparison of the range filters
InRange(lo, v, hi) == lo <= v /\ v <= hi

IsAdsb(m) == ~Raises(m, "df") /\ pms_df(m) \in {17, 18}

\* the common prefix of every get_*: DF 17/18 and a typecode that decodes
HasTypecode(m) == IsAdsb(m) /\ ~Raises(m, "typecode")

get_altitude(m) ==
    IF ~HasTypecode(m) THEN None
    ELSE IF 9 <= pms_adsb_typecode(m) /\ pms_adsb_typecode(m) <= 18
         THEN (IF Raises(m, "altitude") THEN None ELSE m.alt)
         ELSE None

get_velocity(m) ==
    IF ~HasTypecode(m) THEN None
    ELSE IF pms_adsb_typecode(m) = 19
         THEN (IF Raises(m, "velocity") THEN None
               ELSE IF m.velocity # None /\ m.velocity[1] # None
                    THEN m.velocity[1]
                    ELSE None)
         ELSE None

\* mutant: no course without a speed
get_course_NeedsSpeed(m) ==
    IF m.raises # {} \/ m.df \notin {17, 18} \/ m.tc # 19 THEN <<>>
    ELSE IF m.velocity = <<>> \/ m.velocity[1] = <<>> THEN <<>>
    ELSE m.velocity[2]

get_course(m) ==
    IF ~HasTypecode(m) THEN None
    ELSE IF pms_adsb_typecode(m) = 19
         THEN (IF Raises(m, "velocity") \/ m.velocity = None
               THEN None            \* unpacking None raises TypeError, caught
               ELSE m.velocity[2])
         ELSE None

MODE_MAP_get(c) ==
    CASE c = "U" -> "AP"
      [] c = "/" -> "ALT"
      [] c = "M" -> "VNAV"
      [] c = "F" -> "LNAV"
      [] c = "P" -> "APP"
      [] c = "T" -> "TCAS"
      [] c = "C" -> "HDG"
      [] OTHER -> c

\* returns None or the tuple <<selected_alt, processed_modes>>
get_selected_altitude(m) ==
    IF ~HasTypecode(m) THEN None
    ELSE IF pms_adsb_typecode(m) # 29 THEN None
    ELSE IF Raises(m, "selected_altitude") THEN None
    ELSE IF m.sel = None THEN None
    ELSE LET selected_alt == m.sel[1]
             raw_modes == m.sel[2]
         IN  IF selected_alt # None /\ InRange(-2000, selected_alt[1], 50000)
             THEN <<selected_alt[1],
                    {MODE_MAP_get(raw_modes[i]) : i \in 1..Len(raw_modes)}>>
             ELSE None

get_altitude_difference(m) ==
    IF ~HasTypecode(m) THEN None
    ELSE IF pms_adsb_typecode(m) # 19 THEN None
    ELSE IF Raises(m, "altitude_diff") THEN None
    ELSE IF m.adiff # None /\ InRange(-2500, m.adiff[1], 2500)
         THEN m.adiff
         ELSE None

get_baro_correction(m) ==
    IF ~HasTypecode(m) THEN None
    ELSE IF pms_adsb_typecode(m) # 29 THEN None
    ELSE IF Raises(m, "baro_pressure_setting") THEN None
    ELSE IF m.baro # None /\ InRange(800, m.baro[1], 1100)
         THEN m.baro
         ELSE None

Letters == {"A", "B", "C", "D", "E", "F", "G", "H", "I", "J", "K", "L", "M",
            "N", "O", "P", "Q", "R", "S", "T", "U", "V", "W", "X", "Y", "Z"}
Digits == {"0", "1", "2", "3", "4", "5", "6", "7", "8", "9"}

\* str.isalnum() of one character
isalnum(c) == c \in Letters \cup Digits

\* ''.join(c for c in callsign if c.isalnum())
StripToAlnum(s) == SelectSeq(s, isalnum)

\* returns None or Some(string)
get_callsign(m) ==
    IF ~HasTypecode(m) THEN None
    ELSE IF 1 <= pms_adsb_typecode(m) /\ pms_adsb_typecode(m) <= 4
         THEN (IF Raises(m, "callsign") THEN None
               ELSE IF m.cs = None \/ m.cs[1] = <<>>      \* not callsign
                    THEN None
                    ELSE Some(StripToAlnum(m.cs[1])))
         ELSE None

-----------------------------------------------------------------------------
(* The program's dictionaries as one record, so that the steps of the     *)
(* loop body compose; the last three fields are observation only.         *)

Cur ==
    [icao_times |-> icao_times,
     icao_altitude |-> icao_altitude,
     icao_speed |-> icao_speed,
     icao_callsigns |-> icao_callsigns,
     icao_selected_altitude |-> icao_selected_altitude,
     icao_altitude_difference |-> icao_altitude_difference,
     icao_baro_correction |-> icao_baro_correction,
     icao_has_selected_alt |-> icao_has_selected_alt,
     adsb_icao_list |-> adsb_icao_list,
     icao_positions |-> icao_positions,
     icao_courses |-> icao_courses,
     cpr_messages |-> cpr_messages,
     slot_line |-> slot_line,
     attempts |-> attempts,
     line_end |-> "done"]

-----------------------------------------------------------------------------
(* First / last seen *)

\* mutant: a later frame moves first instead of last
Touch_UpdatesFirst(times, aa, ts) ==
    IF aa \notin DOMAIN times
    THEN [x \in (DOMAIN times) \cup {aa} |->
            IF x = aa THEN [first |-> ts, last |-> ts] ELSE times[x]]
    ELSE [times EXCEPT ![aa].first = ts]

\* mutant: a later frame does not move last
Touch_KeepsLast(times, aa, ts) ==
    IF aa \notin DOMAIN times
    THEN [x \in (DOMAIN times) \cup {aa} |->
            IF x = aa THEN [first |-> ts, last |-> ts] ELSE times[x]]
    ELSE times

\* if aa not in icao_times: {"first": ts, "last": ts} else: ["last"] = ts
Touch(times, aa, ts) ==
    IF aa \notin DOMAIN times
    THEN Put(times, aa, [first |-> ts, last |-> ts])
    ELSE [times EXCEPT ![aa].last = ts]

-----------------------------------------------------------------------------
(* CPR pairing *)

EmptySlots == <<None, None>>

\* mutant: a filled slot keeps its first frame
StoreSlot_KeepFirst(slots, oe_flag, entry) ==
    IF slots[oe_flag + 1] = <<>> THEN [slots EXCEPT ![oe_flag + 1] = entry] ELSE slots

\* cpr_messages[aa][oe_flag] = entry   (Python indexes from 0)
StoreSlot(slots, oe_flag, entry) == [slots EXCEPT ![oe_flag + 1] = entry]

\* all(cpr_messages[aa])
AllSlots(slots) == slots[1] # None /\ slots[2] # None

\* mutant: the window includes its bound
Fresh_Inclusive(t0, t1) == Abs(t0 - t1) <= CprWindow

\* abs(t0 - t1) < 10
Fresh(t0, t1) == Abs(t0 - t1) < CprWindow

\* mutant: the odd frame is passed first
ResolvePair_Swapped(slots) ==
    pms_adsb_position(slots[2][1], slots[1][1], slots[2][2], slots[1][2])

\* pms.adsb.position(msg0, msg1, t0, t1) on the two slots
ResolvePair(slots) ==
    pms_adsb_position(slots[1][1], slots[2][1], slots[1][2], slots[2][2])

PairRaises(slots) == Raises(slots[1][1], "position") \/ Raises(slots[2][1], "position")

\* (msg.timestamp, pos[0], pos[1])
PositionEntry(ts, pos) == <<ts, pos[1], pos[2]>>

\* mutant: the reset is dedented out of the freshness test
SlotsAfterPair_Always(slots, fresh, raised) == <<<<>>, <<>>>>

\* mutant: the reset is missing
SlotsAfterPair_Never(slots, fresh, raised) == slots

\* mutant: only the even slot is emptied after a resolution
SlotsAfterPair_KeepOdd(slots, fresh, raised) ==
    IF fresh /\ ~raised THEN <<<<>>, slots[2]>> ELSE slots

\* The slots when the pairing block is left: the reset is the last statement
\* of the `if abs(t0 - t1) < 10` body, so it is reached only for a fresh pair
\* whose resolution returned.
SlotsAfterPair(slots, fresh, raised) ==
    IF fresh /\ ~raised THEN EmptySlots ELSE slots

\* mutant: one pair buffer shared by all aircraft
SlotKey_Shared(aa) == "shared"

\* the key of an aircraft's pair buffer in cpr_messages
SlotKey(aa) == aa

\* the pairing block for a frame of aircraft aa at line ln
Pairing(d, aa, ts, m, ln) ==
    LET d2 == [d EXCEPT !.cpr_messages = SetDefault(@, SlotKey(aa), EmptySlots)]
    IN  IF Raises(m, "oe_flag")
        THEN [d2 EXCEPT !.line_end = "raised"]
        ELSE
        LET oe_flag == pms_adsb_oe_flag(m)
            slots == StoreSlot(d2.cpr_messages[SlotKey(aa)], oe_flag, <<m, ts>>)
            lines == [Get(d2.slot_line, SlotKey(aa), <<0, 0>>) EXCEPT ![oe_flag + 1] = ln]
            d3 == [d2 EXCEPT !.cpr_messages = Put(@, SlotKey(aa), slots),
                             !.slot_line = Put(@, SlotKey(aa), lines)]
        IN  IF ~AllSlots(slots)
            THEN d3
            ELSE
            LET t0 == slots[1][2]
                t1 == slots[2][2]
                fresh == Fresh(t0, t1)
                raised == fresh /\ PairRaises(slots)
                pos == IF fresh /\ ~raised THEN ResolvePair(slots) ELSE None
                after == SlotsAfterPair(slots, fresh, raised)
                attempt == [line |-> ln, icao |-> aa,
                            even |-> lines[1], odd |-> lines[2],
                            msg0 |-> slots[1][1], msg1 |-> slots[2][1],
                            t0 |-> t0, t1 |-> t1,
                            outcome |-> IF ~fresh THEN "stale"
                                        ELSE IF raised THEN "raise"
                                        ELSE IF pos # None THEN "coords"
                                        ELSE "none"]
            IN  [d3 EXCEPT
                   !.icao_positions =
                       IF pos # None THEN ListAppend(@, aa, PositionEntry(ts, pos)) ELSE @,
                   !.cpr_messages = Put(@, SlotKey(aa), after),
                   !.slot_line = Put(@, SlotKey(aa), IF after = EmptySlots THEN <<0, 0>> ELSE lines),
                   !.attempts = Append(@, attempt),
                   !.line_end = IF raised THEN "raised" ELSE "done"]

-----------------------------------------------------------------------------
(* The per-typecode extraction (the body of the inner try) *)

\* typecode 9-18: the altitude (the pairing block follows it, see Extract)
PositionFrame(d, aa, ts, m) ==
    LET alt == get_altitude(m)
        d1 == IF alt # None /\ InRange(-1000, alt[1], 50000)
              THEN [d EXCEPT !.icao_altitude = ListAppend(@, aa, <<ts, alt[1]>>)]
              ELSE d
    IN  d1

\* typecode 19: speed, course, altitude difference
VelocityFrame(d, aa, ts, m) ==
    LET gs == get_velocity(m)
        course == get_course(m)
        alt_diff == get_altitude_difference(m)
        d1 == IF gs # None /\ InRange(0, gs[1], 1000)
              THEN [d EXCEPT !.icao_speed = ListAppend(@, aa, <<ts, gs[1]>>)]
              ELSE d
        d2 == IF course # None
              THEN [d1 EXCEPT !.icao_courses = ListAppend(@, aa, <<ts, course[1]>>)]
              ELSE d1
    IN  IF alt_diff # None
        THEN [d2 EXCEPT !.icao_altitude_difference = ListAppend(@, aa, <<ts, alt_diff[1]>>)]
        ELSE d2

\* mutant: if cs is not None
Truthy_NotNone(cs) == cs # <<>>

\* if cs: (neither None nor the empty string)
Truthy(cs) == cs # None /\ cs[1] # <<>>

\* typecode 1-4: callsign
IdentFrame(d, aa, m) ==
    LET cs == get_callsign(m)
    IN  IF Truthy(cs)
        THEN [d EXCEPT !.icao_callsigns = Put(@, aa, cs[1])]
        ELSE d

\* f"{aa}_modes"
ModesKey(aa) == aa \o "_modes"

\* mutant: the modes of a frame replace the stored ones
StatusFrame_Overwrite(d, aa, ts, m) ==
    LET sel_alt == get_selected_altitude(m)
        baro_corr == get_baro_correction(m)
        d1 == IF sel_alt # <<>>
              THEN [d EXCEPT
                      !.icao_selected_altitude = ListAppend(@, aa, <<ts, sel_alt[1]>>),
                      !.icao_has_selected_alt = Put(@, aa, TRUE),
                      !.icao_callsigns = Put(@, aa \o "_modes", sel_alt[2])]
              ELSE d
    IN  IF baro_corr # <<>>
        THEN [d1 EXCEPT !.icao_baro_correction = ListAppend(@, aa, <<ts, baro_corr[1]>>)]
        ELSE d1

\* typecode 29: selected altitude with its modes, baro correction
StatusFrame(d, aa, ts, m) ==
    LET sel_alt == get_selected_altitude(m)
        baro_corr == get_baro_correction(m)
        d1 == IF sel_alt # None
              THEN [d EXCEPT
                      !.icao_selected_altitude = ListAppend(@, aa, <<ts, sel_alt[1]>>),
                      !.icao_has_selected_alt = Put(@, aa, TRUE),
                      !.icao_callsigns =
                          Put(@, ModesKey(aa), Get(@, ModesKey(aa), {}) \cup sel_alt[2])]
              ELSE d
    IN  IF baro_corr # None
        THEN [d1 EXCEPT !.icao_baro_correction = ListAppend(@, aa, <<ts, baro_corr[1]>>)]
        ELSE d1

\* the inner try: except Exception: continue keeps what was already stored
\* mutant: what the frame wrote before the exception is undone
Extract_RollsBack(d, aa, ts, m, ln) ==
    IF Raises(m, "typecode")
    THEN [d EXCEPT !.line_end = "raised"]
    ELSE LET tc == pms_adsb_typecode(m)
             r == IF 9 <= tc /\ tc <= 18 THEN Pairing(PositionFrame(d, aa, ts, m), aa, ts, m, ln)
                  ELSE IF tc = 19 THEN VelocityFrame(d, aa, ts, m)
                  ELSE IF 1 <= tc /\ tc <= 4 THEN IdentFrame(d, aa, m)
                  ELSE IF tc = 29 THEN StatusFrame(d, aa, ts, m)
                  ELSE d
         IN  IF r.line_end = "raised"
             THEN [d EXCEPT !.line_end = "raised", !.attempts = r.attempts]
             ELSE r

Extract(d, aa, ts, m, ln) ==
    IF Raises(m, "typecode")
    THEN [d EXCEPT !.line_end = "raised"]
    ELSE LET tc == pms_adsb_typecode(m)
         IN  IF 9 <= tc /\ tc <= 18 THEN Pairing(PositionFrame(d, aa, ts, m), aa, ts, m, ln)
             ELSE IF tc = 19 THEN VelocityFrame(d, aa, ts, m)
             ELSE IF 1 <= tc /\ tc <= 4 THEN IdentFrame(d, aa, m)
             ELSE IF tc = 29 THEN StatusFrame(d, aa, ts, m)
             ELSE d

-----------------------------------------------------------------------------
(* parse_ads_b_line: a line is a sequence of one-character strings *)

Whitespace == {" ", "\t"}

LowerCase == <<"a", "b", "c", "d", "e", "f", "g", "h", "i", "j", "k", "l", "m",
               "n", "o", "p", "q", "r", "s", "t", "u", "v", "w", "x", "y", "z">>
UpperCase == <<"A", "B", "C", "D", "E", "F", "G", "H", "I", "J", "K", "L", "M",
               "N", "O", "P", "Q", "R", "S", "T", "U", "V", "W", "X", "Y", "Z">>
HexDigits == <<"0", "1", "2", "3", "4", "5", "6", "7", "8", "9",
               "A", "B", "C", "D", "E", "F">>
DecimalDigits == <<"0", "1", "2", "3", "4", "5", "6", "7", "8", "9">>

\* the index of c in the sequence s, 0 if it is not there
IndexOf(s, c) == IF \E i \in 1..Len(s) : s[i] = c
                 THEN CHOOSE i \in 1..Len(s) : s[i] = c
                 ELSE 0

RECURSIVE lstrip(_)
lstrip(s) == IF s # <<>> /\ Head(s) \in Whitespace THEN lstrip(Tail(s)) ELSE s

RECURSIVE rstrip(_)
rstrip(s) == IF s # <<>> /\ s[Len(s)] \in Whitespace
             THEN rstrip(SubSeq(s, 1, Len(s) - 1))
             ELSE s

\* str.strip()
strip(s) == rstrip(lstrip(s))

\* the length of the longest prefix of s without whitespace
RECURSIVE TokenLen(_)
TokenLen(s) == IF s = <<>> \/ Head(s) \in Whitespace THEN 0 ELSE 1 + TokenLen(Tail(s))

\* str.split(): the maximal runs of non-whitespace characters
RECURSIVE split(_)
split(s) ==
    LET t == lstrip(s)
        n == TokenLen(t)
    IN  IF t = <<>> THEN <<>>
        ELSE <<SubSeq(t, 1, n)>> \o split(SubSeq(t, n + 1, Len(t)))

\* sep.join(parts)
RECURSIVE join(_, _)
join(sep, parts) ==
    IF parts = <<>> THEN <<>>
    ELSE IF Len(parts) = 1 THEN parts[1]
    ELSE parts[1] \o sep \o join(sep, Tail(parts))

upper_char(c) == IF IndexOf(LowerCase, c) # 0 THEN UpperCase[IndexOf(LowerCase, c)] ELSE c

\* str.upper()
upper(s) == [i \in 1..Len(s) |-> upper_char(s[i])]

\* str.replace(" ", "")
replace_spaces(s) == SelectSeq(s, LAMBDA c : c # " ")

RECURSIVE DecimalValue(_)
DecimalValue(s) == IF s = <<>> THEN 0
                   ELSE 10 * DecimalValue(SubSeq(s, 1, Len(s) - 1))
                        + (IndexOf(DecimalDigits, s[Len(s)]) - 1)

\* np.float64(token): Some(value), or None where it raises ValueError.  Of the
\* tokens over LineAlphabet the ones it accepts are the runs of decimal
\* digits (a sign, a point, an exponent, "inf", "nan" need other characters).
np_float64(token) ==
    IF token # <<>> /\ \A i \in 1..Len(token) : IndexOf(DecimalDigits, token[i]) # 0
    THEN Some(DecimalValue(token))
    ELSE None

\* int(chunk, 16) of one or two hex digits
int16(chunk) ==
    IF Len(chunk) = 1 THEN IndexOf(HexDigits, chunk[1]) - 1
    ELSE 16 * (IndexOf(HexDigits, chunk[1]) - 1) + (IndexOf(HexDigits, chunk[2]) - 1)

Min(a, b) == IF a <= b THEN a ELSE b

\* [int(message_str[i:i+2], 16) for i in range(0, len(message_str), 2)]
bytes_list(hex_str) ==
    [k \in 1..((Len(hex_str) + 1) \div 2) |->
        int16(SubSeq(hex_str, 2 * k - 1, Min(2 * k, Len(hex_str))))]

\* mutant: only the first token after the timestamp is taken as the payload
PayloadTokens_First(parts) == <<parts[2]>>

\* parts[1:]
PayloadTokens(parts) == Tail(parts)

\* returns None, or Some of msg (timestamp, message, message_length),
\* message_spaced and message_str
parse_ads_b_line(l) ==
    LET parts == split(strip(l))
    IN  IF Len(parts) < 2 THEN None
        ELSE IF np_float64(parts[1]) = None THEN None
        ELSE
        LET timestamp == np_float64(parts[1])[1]
            message_spaced == strip(upper(join(<<" ">>, PayloadTokens(parts))))
            hex_str == replace_spaces(message_spaced)
        IN  IF \/ Len(hex_str) = 0
               \/ ~(\A i \in 1..Len(hex_str) : IndexOf(HexDigits, hex_str[i]) # 0)
            THEN None
            ELSE
            LET bytes == bytes_list(hex_str)
                message_length == Min(Len(bytes), MAX_MESSAGE_LENGTH)
            IN  Some([timestamp |-> timestamp,
                      message |-> [i \in 1..MAX_MESSAGE_LENGTH |->
                                      IF i <= message_length THEN bytes[i] ELSE 0],
                      message_length |-> message_length,
                      message_spaced |-> message_spaced,
                      message_str |-> hex_str])

-----------------------------------------------------------------------------
(* One line of the log *)

Install(d) ==
    /\ icao_times' = d.icao_times
    /\ icao_altitude' = d.icao_altitude
    /\ icao_speed' = d.icao_speed
    /\ icao_callsigns' = d.icao_callsigns
    /\ icao_selected_altitude' = d.icao_selected_altitude
    /\ icao_altitude_difference' = d.icao_altitude_difference
    /\ icao_baro_correction' = d.icao_baro_correction
    /\ icao_has_selected_alt' = d.icao_has_selected_alt
    /\ adsb_icao_list' = d.adsb_icao_list
    /\ icao_positions' = d.icao_positions
    /\ icao_courses' = d.icao_courses
    /\ cpr_messages' = d.cpr_messages
    /\ slot_line' = d.slot_line
    /\ attempts' = d.attempts
    /\ line_end' = d.line_end

\* mutant: every downlink format is let through
DfAccepted_Any(df) == TRUE

\* df in [17, 18]
DfAccepted(df) == df \in {17, 18}

\* str.upper() of an address given on the command line
str_upper(a) ==
    CASE a = "abcdef" -> "ABCDEF"
      [] a = "AbCdEf" -> "ABCDEF"
      [] a = "40621d" -> "40621D"
      [] OTHER -> a

\* target_icao = args.aircraft.upper() if args.aircraft else None
TargetIcao(aircraft) ==
    IF aircraft # None /\ aircraft[1] # "" THEN Some(str_upper(aircraft[1])) ELSE None

\* mutant: the aircraft filter lets every frame through
Filtered_Never(target, aa) == FALSE

\* if target_icao and aa != target_icao: continue
Filtered(target, aa) == target # None /\ Some(aa) # target

\* mutant: the address is not added to the set of aircraft
Observe_Skip(S, aa) == S

\* adsb_icao_list.add(aa)
Observe(S, aa) == S \cup {aa}

\* mutant: an unparsable line also empties the pair buffers
SkipLine_DropsPairs(l) ==
    /\ pc = "ingest"
    /\ strip(l) = <<>> \/ parse_ads_b_line(l) = None
    /\ line_num' = line_num + 1
    /\ Install([Cur EXCEPT !.line_end = "skipped", !.cpr_messages = <<>>])
    /\ UNCHANGED <<target_icao, msg_timestamp, message_str, seen_ts>>
    /\ UNCHANGED <<pc, args_aircraft, stdout, line, parsed>>
    /\ UNCHANGED <<icao_list, icao_index, plot_mode_idx, clicks>>

\* a blank line, or one parse_ads_b_line returns None for: continue
SkipLine(l) ==
    /\ pc = "ingest"
    /\ strip(l) = <<>> \/ parse_ads_b_line(l) = None
    /\ line_num' = line_num + 1
    /\ Install([Cur EXCEPT !.line_end = "skipped"])
    /\ UNCHANGED <<target_icao, msg_timestamp, message_str, seen_ts>>
    /\ UNCHANGED <<pc, args_aircraft, stdout, line, parsed>>
    /\ UNCHANGED <<icao_list, icao_index, plot_mode_idx, clicks>>

\* a parsed line: timestamp ts and payload m
ProcessLine(ts, m) ==
    /\ pc = "ingest"
    /\ UNCHANGED <<pc, args_aircraft, stdout, line, parsed>>
    /\ UNCHANGED <<icao_list, icao_index, plot_mode_idx, clicks>>
    /\ line_num' = line_num + 1
    /\ target_icao' = target_icao
    /\ msg_timestamp' = ts
    /\ message_str' = m
    /\ IF Raises(m, "df") \/ Raises(m, "icao")
       THEN /\ Install([Cur EXCEPT !.line_end = "undecodable"])
            /\ UNCHANGED seen_ts
       ELSE IF ~DfAccepted(pms_df(m))
       THEN /\ Install([Cur EXCEPT !.line_end = "not_adsb"])
            /\ UNCHANGED seen_ts
       ELSE IF Filtered(target_icao, pms_icao(m))
       THEN /\ Install([Cur EXCEPT !.line_end = "filtered"])
            /\ UNCHANGED seen_ts
       ELSE LET aa == pms_icao(m)
                d1 == [Cur EXCEPT !.adsb_icao_list = Observe(@, aa),
                                  !.icao_times = Touch(@, aa, ts)]
            IN  /\ Install(Extract(d1, aa, ts, m, line_num + 1))
                /\ seen_ts' = ListAppend(seen_ts, aa, ts)

-----------------------------------------------------------------------------
(* The end of the run: the summary table, and the top-level handlers *)

\* format_timestamp_with_nanoseconds(ts): the UTC second and the nine digits
\* of the fraction (timestamps are whole seconds here, and seconds that
\* datetime.fromtimestamp can represent: for others it raises)
format_timestamp_with_nanoseconds(ts) == [second |-> ts, nanoseconds |-> 0]

Yes == "Da"
No == "Net"

\* "Да" if icao in series and series[icao] else "Нет"
SeriesFlag(series, icao) ==
    IF icao \in DOMAIN series /\ series[icao] # <<>> THEN Yes ELSE No

\* the addresses of the model in the order of Python's string comparison
IcaoOrder == <<"40621D", "A1B2C3", "ABCDEF">>

\* mutant: the rows come in descending order
sorted_Descending(S) == SelectSeq(<<"ABCDEF", "40621D">>, LAMBDA a : a \in S)

\* sorted(list(S))
sorted(S) == SelectSeq(IcaoOrder, LAMBDA a : a \in S)

SummaryRow(icao) ==
    [icao |-> icao,
     callsign |-> Get(icao_callsigns, icao, <<"N", "/", "A">>),
     first_utc_str |-> format_timestamp_with_nanoseconds(icao_times[icao].first),
     last_utc_str |-> format_timestamp_with_nanoseconds(icao_times[icao].last),
     coord_flag |-> SeriesFlag(icao_positions, icao),
     course_flag |-> SeriesFlag(icao_courses, icao),
     sel_alt_flag |-> IF Get(icao_has_selected_alt, icao, FALSE) THEN Yes ELSE No,
     alt_diff_flag |-> SeriesFlag(icao_altitude_difference, icao),
     baro_corr_flag |-> SeriesFlag(icao_baro_correction, icao)]

\* the lines the table consists of: the header, a row per aircraft, the total
SummaryTable ==
    LET shown == SelectSeq(sorted(adsb_icao_list), LAMBDA a : a \in DOMAIN icao_times)
    IN  <<<<"header">>>>
        \o [i \in 1..Len(shown) |-> <<"row", SummaryRow(shown[i])>>]
        \o <<<<"total", Cardinality(adsb_icao_list)>>>>

\* the exceptions that can leave the `with open(...)` block while the file
\* is opened and read
OpenErrors == {"FileNotFoundError", "PermissionError"}
ReadErrors == {"UnicodeDecodeError", "OSError"}

\* the classes derived from Exception (what `except Exception` catches)
ExceptionClasses == {"FileNotFoundError", "PermissionError", "UnicodeDecodeError", "OSError"}

Caught(exc) == exc = "FileNotFoundError" \/ exc \in ExceptionClasses

\* except FileNotFoundError: ... except Exception as e: ...
ErrorMessage(exc) ==
    IF exc = "FileNotFoundError" THEN <<"not_found">> ELSE <<"critical", exc>>

UnchangedIngest ==
    UNCHANGED <<icao_list, icao_index, plot_mode_idx, clicks, args_aircraft, line, parsed, line_num, target_icao, msg_timestamp,
                message_str, icao_times, icao_altitude, icao_speed, icao_callsigns,
                icao_selected_altitude, icao_altitude_difference,
                icao_baro_correction, icao_has_selected_alt, adsb_icao_list,
                icao_positions, icao_courses, cpr_messages, line_end, slot_line,
                attempts, seen_ts>>

\* mutant: the header is out before the exception is handled
Escapes_AfterHeader(exc) ==
    /\ pc = "ingest"
    /\ pc' = IF Caught(exc) THEN "failed" ELSE "crashed"
    /\ stdout' = stdout \o <<<<"header">>, ErrorMessage(exc)>>
    /\ UnchangedIngest

\* an exception leaves the loop and reaches the handlers of lines 687-690
Escapes(exc) ==
    /\ pc = "ingest"
    /\ pc' = IF Caught(exc) THEN "failed" ELSE "crashed"
    /\ stdout' = IF Caught(exc) THEN Append(stdout, ErrorMessage(exc)) ELSE stdout
    /\ UnchangedIngest

\* the file is exhausted: the table is printed (lines 661-682)
PrintSummary ==
    /\ pc = "ingest"
    /\ pc' = "done"
    /\ stdout' = stdout \o SummaryTable
    /\ UnchangedIngest

-----------------------------------------------------------------------------
(* IcaoGraphs: the list of aircraft and the two indices of the window *)

plot_modes == <<"altitude", "speed", "altitude_speed_combined", "latitude",
                "course", "track", "altitude_diff", "baro_correction">>

\* sorted(list(icao_with_data.intersection(adsb_icao_list)))
IcaoGraphs_icao_list(alt_dict, spd_dict, pos_dict, course_dict, observed) ==
    LET icao_with_data == DOMAIN alt_dict \cup DOMAIN spd_dict
                              \cup DOMAIN pos_dict \cup DOMAIN course_dict
    IN  sorted(icao_with_data \cap observed)

\* (i + 1) % n
next_index(i, n) == (i + 1) % n

\* mutant: the previous index stops at the first entry
prev_index_Clamped(i, n) == IF i = 0 THEN 0 ELSE i - 1

\* (i - 1 + n) % n
prev_index(i, n) == (i - 1 + n) % n

\* what an event is recorded as
Click(event, handler) ==
    [event |-> event, handler |-> handler,
     icao_index |-> icao_index, plot_mode_idx |-> plot_mode_idx]

UnchangedByWindow ==
    UNCHANGED <<pc, args_aircraft, stdout, icao_list, line, parsed, line_num,
                target_icao, msg_timestamp, message_str, icao_times, icao_altitude,
                icao_speed, icao_callsigns, icao_selected_altitude,
                icao_altitude_difference, icao_baro_correction, icao_has_selected_alt,
                adsb_icao_list, icao_positions, icao_courses, cpr_messages, line_end,
                slot_line, attempts, seen_ts>>

next_icao(event) ==
    /\ pc = "graphs"
    /\ clicks' = Append(clicks, Click(event, "next_icao"))
    /\ IF icao_list = <<>>
       THEN UNCHANGED <<icao_index, plot_mode_idx>>
       ELSE /\ icao_index' = next_index(icao_index, Len(icao_list))
            /\ UNCHANGED plot_mode_idx
    /\ UnchangedByWindow

prev_icao(event) ==
    /\ pc = "graphs"
    /\ clicks' = Append(clicks, Click(event, "prev_icao"))
    /\ IF icao_list = <<>>
       THEN UNCHANGED <<icao_index, plot_mode_idx>>
       ELSE /\ icao_index' = prev_index(icao_index, Len(icao_list))
            /\ UNCHANGED plot_mode_idx
    /\ UnchangedByWindow

next_mode(event) ==
    /\ pc = "graphs"
    /\ clicks' = Append(clicks, Click(event, "next_mode"))
    /\ IF icao_list = <<>>
       THEN UNCHANGED <<icao_index, plot_mode_idx>>
       ELSE /\ plot_mode_idx' = next_index(plot_mode_idx, Len(plot_modes))
            /\ UNCHANGED icao_index
    /\ UnchangedByWindow

prev_mode(event) ==
    /\ pc = "graphs"
    /\ clicks' = Append(clicks, Click(event, "prev_mode"))
    /\ IF icao_list = <<>>
       THEN UNCHANGED <<icao_index, plot_mode_idx>>
       ELSE /\ plot_mode_idx' = prev_index(plot_mode_idx, Len(plot_modes))
            /\ UNCHANGED icao_index
    /\ UnchangedByWindow

\* a key that is none of the four arrows
other_key(key) ==
    /\ pc = "graphs"
    /\ clicks' = Append(clicks, Click(key, "none"))
    /\ UNCHANGED <<icao_index, plot_mode_idx>>
    /\ UnchangedByWindow

on_key(key) ==
    IF key = "right" THEN next_icao(key)
    ELSE IF key = "left" THEN prev_icao(key)
    ELSE IF key = "up" THEN next_mode(key)
    ELSE IF key = "down" THEN prev_mode(key)
    ELSE other_key(key)

-----------------------------------------------------------------------------
(* Input: the frames a log may hold *)

Timestamps == {0, 3, 13}
CprTimestamps == {0, 3, 10, 15}

Frame(icao, tc) ==
    [df |-> 17, icao |-> icao, tc |-> tc, alt |-> None, oe |-> 0, cpr |-> 0,
     velocity |-> None, adiff |-> None, cs |-> None, sel |-> None,
     baro |-> None, raises |-> {}]

Pos(icao, oe, cpr, alt) == [Frame(icao, 11) EXCEPT !.oe = oe, !.cpr = cpr, !.alt = alt]
Vel(icao, gs, hdg, adiff) == [Frame(icao, 19) EXCEPT !.velocity = <<gs, hdg>>, !.adiff = adiff]
Ident(icao, cs) == [Frame(icao, 4) EXCEPT !.cs = cs]
Status(icao, sel, baro) == [Frame(icao, 29) EXCEPT !.sel = sel, !.baro = baro]
Faulty(m, op) == [m EXCEPT !.raises = {op}]

PositionMessages ==
    { Pos("ABCDEF", 0, 2, Some(25000)),
      Pos("ABCDEF", 1, 2, Some(-1500)),
      Pos("ABCDEF", 1, 3, None),
      Pos("ABCDEF", 0, 1, Some(-1000)),
      Pos("ABCDEF", 0, 2, Some(-1001)),
      Pos("ABCDEF", 1, 2, Some(50000)),
      Pos("ABCDEF", 1, 2, Some(50001)),
      Pos("40621D", 1, 2, Some(25000)) }

VelocityMessages ==
    { Vel("ABCDEF", Some(450), Some(90), Some(100)),
      Vel("ABCDEF", Some(1200), Some(90), Some(2500)),
      Vel("ABCDEF", None, Some(180), Some(-2500)),
      Vel("ABCDEF", Some(0), None, None),
      Vel("ABCDEF", Some(1000), Some(0), Some(-2501)),
      Vel("ABCDEF", Some(1001), Some(0), Some(2501)),
      Vel("ABCDEF", Some(-1), None, Some(0)),
      [Frame("ABCDEF", 19) EXCEPT !.adiff = Some(-300)] }

IdentMessages ==
    { Ident("ABCDEF", Some(<<"K", "L", "1">>)),
      Ident("ABCDEF", Some(<<"X", "_", "9">>)),
      Ident("ABCDEF", Some(<<"_", "_">>)),
      Ident("ABCDEF", Some(<<>>)),
      Ident("ABCDEF", None),
      Ident("40621D", Some(<<"B", "7">>)) }

StatusMessages ==
    { Status("ABCDEF", <<Some(32000), <<"U">>>>, Some(1013)),
      Status("ABCDEF", <<Some(50001), <<"/">>>>, Some(800)),
      Status("ABCDEF", <<None, <<"N", "/", "A">>>>, Some(1100)),
      Status("ABCDEF", None, Some(799)),
      Status("ABCDEF", <<Some(-2000), <<"M", "X">>>>, Some(1101)),
      Status("ABCDEF", <<Some(50000), <<>>>>, None),
      Status("ABCDEF", <<Some(-2001), <<"C">>>>, Some(1013)) }

OtherMessages ==
    { Frame("ABCDEF", 31),
      [Frame("ABCDEF", 11) EXCEPT !.df = 11],
      Faulty(Frame("ABCDEF", 11), "df"),
      Faulty(Frame("ABCDEF", 11), "icao"),
      Faulty(Pos("ABCDEF", 0, 2, Some(25000)), "typecode"),
      Faulty(Pos("ABCDEF", 1, 2, Some(25000)), "oe_flag"),
      Faulty(Pos("ABCDEF", 1, 2, Some(25000)), "position") }

Messages ==
    PositionMessages \cup VelocityMessages \cup IdentMessages
        \cup StatusMessages \cup OtherMessages

\* position traffic only, for the pairing
CprMessages ==
    { Pos("ABCDEF", 0, 1, Some(25000)),
      Pos("ABCDEF", 0, 2, Some(25000)),
      Pos("ABCDEF", 1, 2, Some(25000)),
      Pos("ABCDEF", 1, 3, Some(25000)),
      Faulty(Pos("ABCDEF", 1, 2, Some(25000)), "position"),
      Pos("40621D", 0, 2, Some(25000)),
      Pos("40621D", 1, 2, Some(25000)) }

-----------------------------------------------------------------------------
(* Specifications *)

\* lines of the log that are looked at for being skipped
SampleLines ==
    { <<>>,
      <<" ", "\t">>,
      <<"1", "3">>,
      <<"x", " ", "8", "D">>,
      <<"1", "3", " ", "8", "G">>,
      <<"1", "3", " ", "8", "d">> }

\* the dictionaries and the loop variables before the first line
InitIngest ==
    /\ stdout = <<>>
    /\ icao_list = <<>>
    /\ icao_index = None
    /\ plot_mode_idx = None
    /\ clicks = <<>>
    /\ parsed = None
    /\ line_num = 0
    /\ msg_timestamp = 0
    /\ message_str = None
    /\ icao_times = <<>>
    /\ icao_altitude = <<>>
    /\ icao_speed = <<>>
    /\ icao_callsigns = <<>>
    /\ icao_selected_altitude = <<>>
    /\ icao_altitude_difference = <<>>
    /\ icao_baro_correction = <<>>
    /\ icao_has_selected_alt = <<>>
    /\ adsb_icao_list = {}
    /\ icao_positions = <<>>
    /\ icao_courses = <<>>
    /\ cpr_messages = <<>>
    /\ line_end = "start"
    /\ slot_line = <<>>
    /\ attempts = <<>>
    /\ seen_ts = <<>>

\* a run without the --aircraft option
Init ==
    /\ pc = "ingest"
    /\ args_aircraft = None
    /\ target_icao = None
    /\ line = <<>>
    /\ InitIngest

ReadFrame ==
    /\ line_num < MaxLines
    /\ \E ts \in Timestamps, m \in Messages : ProcessLine(ts, m)

ReadBlank ==
    /\ line_num < MaxLines
    /\ \E l \in SampleLines : SkipLine(l)

Next == ReadFrame \/ ReadBlank

Spec == Init /\ [][Next]_vars

ReadPositionFrame ==
    /\ line_num < MaxCprLines
    /\ \E ts \in CprTimestamps, m \in CprMessages : ProcessLine(ts, m)

NextCpr == ReadPositionFrame

SpecCpr == Init /\ [][NextCpr]_vars

\* one call of parse_ads_b_line, on any line of up to MaxLineLen characters
LineAlphabet == {" ", "\t", "1", "a", "F", "G"}

Lines == UNION {[1..n -> LineAlphabet] : n \in 0..MaxLineLen}

InitParse ==
    /\ pc = "parse"
    /\ args_aircraft = None
    /\ target_icao = None
    /\ InitIngest
    /\ line \in Lines

CallParse ==
    /\ pc = "parse"
    /\ pc' = "parsed"
    /\ parsed' = parse_ads_b_line(line)
    /\ UNCHANGED <<icao_list, icao_index, plot_mode_idx, clicks>>
    /\ UNCHANGED <<args_aircraft, stdout, line, line_num, target_icao, msg_timestamp,
                   message_str, icao_times, icao_altitude, icao_speed, icao_callsigns,
                   icao_selected_altitude, icao_altitude_difference,
                   icao_baro_correction, icao_has_selected_alt, adsb_icao_list,
                   icao_positions, icao_courses, cpr_messages, line_end, slot_line,
                   attempts, seen_ts>>

NextParse == CallParse

SpecParse == InitParse /\ [][NextParse]_vars

\* a whole run: the command line, the log, the summary or the error message
AircraftArgs == {None, Some(""), Some("abcdef"), Some("40621D")}

RunTimestamps == {0, 3}

RunMessages ==
    { Pos("ABCDEF", 0, 2, Some(25000)),
      Pos("ABCDEF", 1, 2, Some(-1500)),
      Pos("40621D", 1, 2, Some(25000)),
      Vel("ABCDEF", Some(450), Some(90), Some(100)),
      Ident("40621D", Some(<<"B", "7">>)),
      Status("ABCDEF", <<Some(32000), <<"U">>>>, Some(1013)),
      Status("40621D", <<Some(50001), <<"/">>>>, Some(800)),
      [Frame("40621D", 11) EXCEPT !.df = 11],
      Faulty(Pos("40621D", 0, 2, Some(25000)), "typecode"),
      Faulty(Pos("ABCDEF", 1, 2, Some(25000)), "oe_flag") }

InitRun ==
    /\ pc = "ingest"
    /\ args_aircraft \in AircraftArgs
    /\ target_icao = TargetIcao(args_aircraft)
    /\ line = <<>>
    /\ InitIngest

OpenFails ==
    /\ line_num = 0
    /\ \E exc \in OpenErrors : Escapes(exc)

ReadFails == \E exc \in ReadErrors : Escapes(exc)

ReadRunFrame ==
    /\ line_num < MaxRunLines
    /\ \E ts \in RunTimestamps, m \in RunMessages : ProcessLine(ts, m)

ReadRunBlank ==
    /\ line_num < MaxRunLines
    /\ \E l \in SampleLines : SkipLine(l)

EndOfFile == PrintSummary

NextRun == OpenFails \/ ReadFails \/ ReadRunFrame \/ ReadRunBlank \/ EndOfFile

SpecRun == InitRun /\ [][NextRun]_vars

\* the graph window, opened on what a log left behind: the aircraft of
\* observed were seen, those of with_speed in a velocity frame with a speed
GraphIcaos == {"40621D", "A1B2C3", "ABCDEF"}

Keys == {"right", "left", "up", "down", "a"}

InitGraph ==
    /\ pc = "graphs"
    /\ args_aircraft = None
    /\ target_icao = None
    /\ line = <<>>
    /\ parsed = None
    /\ msg_timestamp = 0
    /\ message_str = None
    /\ line_end = "done"
    /\ \E observed \in SUBSET GraphIcaos : \E with_speed \in SUBSET observed :
          /\ adsb_icao_list = observed
          /\ line_num = Cardinality(observed)
          /\ icao_times = [a \in observed |-> [first |-> 0, last |-> 0]]
          /\ seen_ts = [a \in observed |-> <<0>>]
          /\ icao_speed = [a \in with_speed |-> <<<<0, 450>>>>]
    /\ icao_altitude = <<>>
    /\ icao_callsigns = <<>>
    /\ icao_selected_altitude = <<>>
    /\ icao_altitude_difference = <<>>
    /\ icao_baro_correction = <<>>
    /\ icao_has_selected_alt = <<>>
    /\ icao_positions = <<>>
    /\ icao_courses = <<>>
    /\ cpr_messages = <<>>
    /\ slot_line = <<>>
    /\ attempts = <<>>
    /\ icao_list = IcaoGraphs_icao_list(icao_altitude, icao_speed, icao_positions,
                                        icao_courses, adsb_icao_list)
    /\ icao_index = IF icao_list = <<>> THEN None ELSE 0
    /\ plot_mode_idx = IF icao_list = <<>> THEN None ELSE 0
    /\ stdout = SummaryTable \o (IF icao_list = <<>> THEN <<<<"no_data">>>> ELSE <<>>)
    /\ clicks = <<>>

ClickNextIcao == Len(clicks) < MaxEvents /\ next_icao("button")
ClickPrevIcao == Len(clicks) < MaxEvents /\ prev_icao("button")
ClickNextMode == Len(clicks) < MaxEvents /\ next_mode("button")
ClickPrevMode == Len(clicks) < MaxEvents /\ prev_mode("button")
PressKey == Len(clicks) < MaxEvents /\ \E key \in Keys : on_key(key)

NextGraph == ClickNextIcao \/ ClickPrevIcao \/ ClickNextMode \/ ClickPrevMode \/ PressKey

SpecGraph == InitGraph /\ [][NextGraph]_vars

-----------------------------------------------------------------------------
(* Properties of the CPR pairing (checked under SpecCpr) *)

Last(s) == s[Len(s)]

\* the line just processed made both slots of an aircraft non-empty
AttemptNow == attempts # <<>> /\ Last(attempts).line = line_num

LinesOf(at) == {at.even, at.odd}

Returned(at) == at.outcome \in {"coords", "none"}

PositionCount(positions, a) == Len(Get(positions, a, <<>>))

\* C3: a frame that makes both slots non-empty appends exactly one entry to
\* that aircraft's position_series if |t_even - t_odd| < 10 and
\* resolve_position yields coordinates, and none otherwise (no other step
\* appends any); the bound is strict: resolve_position is not invoked for a
\* pair with |t_even - t_odd| >= 10.
C3_OneEntryPerFreshResolvedPair ==
    [][ \A a \in {"ABCDEF", "40621D"} :
          LET made == attempts' # attempts /\ Last(attempts').icao = a
              at == Last(attempts')
              resolved ==
                  /\ made
                  /\ Abs(at.t0 - at.t1) < 10
                  /\ "position" \notin at.msg0.raises \cup at.msg1.raises
                  /\ pms_adsb_position(at.msg0, at.msg1, at.t0, at.t1) # None
          IN  /\ PositionCount(icao_positions', a)
                    = PositionCount(icao_positions, a) + (IF resolved THEN 1 ELSE 0)
              /\ made => (at.outcome = "stale" <=> Abs(at.t0 - at.t1) >= 10)
      ]_vars

\* a pair exactly 10 s apart was just found stale
C3_Witness ==
    /\ AttemptNow
    /\ Abs(Last(attempts).t0 - Last(attempts).t1) = 10
    /\ Last(attempts).outcome = "stale"
    /\ Last(attempts).icao \notin DOMAIN icao_positions

\* the frame just read is a position frame that reached the slot write
StoredFrame ==
    /\ line_end \in {"done", "raised"}
    /\ message_str.raises \cap {"typecode", "oe_flag"} = {}
    /\ 9 <= message_str.tc /\ message_str.tc <= 18

\* C4: a position frame replaces the slot of its own parity and leaves the
\* opposite slot as it was (unless the pair is consumed), and a pairing
\* attempt uses the frame just read for its own parity and the held frame
\* for the other: after even1, even2, odd the pair is (even2, odd).
C4_SlotOverwrite ==
    [][ StoredFrame' =>
          LET m == message_str'
              a == m.icao
              own == m.oe + 1
              other == 2 - m.oe
              old == Get(cpr_messages, a, <<None, None>>)
              new == cpr_messages'[a]
              pair == [new EXCEPT ![own] = <<m, msg_timestamp'>>, ![other] = old[other]]
          IN  /\ new = <<None, None>> \/ new = pair
              /\ attempts' # attempts =>
                    /\ <<Last(attempts').msg0, Last(attempts').t0>> = pair[1]
                    /\ <<Last(attempts').msg1, Last(attempts').t1>> = pair[2]
              /\ (attempts' = attempts) => new = pair
      ]_vars

\* even1, even2, odd of one aircraft: the only attempt pairs lines 2 and 3
C4_Witness ==
    /\ line_num = 3
    /\ Len(attempts) = 1
    /\ attempts[1].icao = "ABCDEF"
    /\ attempts[1].even = 2 /\ attempts[1].odd = 3
    /\ Len(icao_altitude["ABCDEF"]) = 3
    /\ attempts[1].outcome = "coords"

\* C5: an appended position entry carries the timestamp of the frame being
\* processed and the coordinates of resolve_position(even payload, odd
\* payload, t_even, t_odd), whichever parity arrived last.
C5_EntryOfCompletingFrame ==
    [][ \A a \in DOMAIN icao_positions' :
          icao_positions'[a] # Get(icao_positions, a, <<>>) =>
            LET m == message_str'
                ts == msg_timestamp'
                old == Get(cpr_messages, a, <<None, None>>)
                even == IF m.oe = 0 THEN <<m, ts>> ELSE old[1]
                odd == IF m.oe = 1 THEN <<m, ts>> ELSE old[2]
                pos == pms_adsb_position(even[1], odd[1], even[2], odd[2])
            IN  /\ m.icao = a
                /\ even[1].oe = 0 /\ odd[1].oe = 1
                /\ icao_positions'[a]
                       = Append(Get(icao_positions, a, <<>>), <<ts, pos[1], pos[2]>>)
      ]_vars

\* an even frame completed a pair whose two frames differ in payload and time
C5_Witness ==
    /\ AttemptNow
    /\ Last(attempts).outcome = "coords"
    /\ message_str.oe = 0
    /\ Last(attempts).t0 < Last(attempts).t1
    /\ Last(attempts).msg0.cpr # Last(attempts).msg1.cpr
    /\ Last(icao_positions[Last(attempts).icao])[1] = Last(attempts).t0

-----------------------------------------------------------------------------
(* Properties of the aggregation (checked under Spec) *)

\* the step read a parsed line (message_str' and msg_timestamp' are its)
ParsedStep == line_num' # line_num /\ line_end' # "skipped"

\* a frame the loop does not drop: DF and address decode, DF 17/18, and
\* the aircraft filter lets it through
Accepted(m) ==
    /\ m.raises \cap {"df", "icao"} = {}
    /\ m.df \in {17, 18}
    /\ target_icao = None \/ target_icao = <<m.icao>>

Series(dict, a) == Get(dict, a, <<>>)

\* the series of aircraft a is as before, with entry appended if cond
Grows(old, new, a, cond, entry) ==
    Series(new, a) = IF cond THEN Append(Series(old, a), entry) ELSE Series(old, a)

ValuesWithin(dict, lo, hi) ==
    \A a \in DOMAIN dict : \A i \in 1..Len(dict[a]) :
        lo <= dict[a][i][2] /\ dict[a][i][2] <= hi

AllStoredInRange ==
    /\ ValuesWithin(icao_altitude, -1000, 50000)
    /\ ValuesWithin(icao_selected_altitude, -2000, 50000)
    /\ ValuesWithin(icao_speed, 0, 1000)
    /\ ValuesWithin(icao_altitude_difference, -2500, 2500)
    /\ ValuesWithin(icao_baro_correction, 800, 1100)

\* C6: for each of the five range-filtered kinds, the value a frame decodes
\* to is appended, unchanged, to the aircraft's series if and only if it lies
\* in the kind's inclusive range; so every stored value is in its range.
C6_StoredIffInRange ==
    [][ /\ AllStoredInRange'
        /\ (ParsedStep /\ Accepted(message_str') /\ "typecode" \notin message_str'.raises) =>
             LET m == message_str'
                 a == m.icao
                 ts == msg_timestamp'
                 position == 9 <= m.tc /\ m.tc <= 18
             IN  /\ Grows(icao_altitude, icao_altitude', a,
                          position /\ m.alt # None
                              /\ -1000 <= m.alt[1] /\ m.alt[1] <= 50000,
                          <<ts, m.alt[1]>>)
                 /\ Grows(icao_speed, icao_speed', a,
                          m.tc = 19 /\ m.velocity # None /\ m.velocity[1] # None
                              /\ 0 <= m.velocity[1][1] /\ m.velocity[1][1] <= 1000,
                          <<ts, m.velocity[1][1]>>)
                 /\ Grows(icao_altitude_difference, icao_altitude_difference', a,
                          m.tc = 19 /\ m.adiff # None
                              /\ -2500 <= m.adiff[1] /\ m.adiff[1] <= 2500,
                          <<ts, m.adiff[1]>>)
                 /\ Grows(icao_selected_altitude, icao_selected_altitude', a,
                          m.tc = 29 /\ m.sel # None /\ m.sel[1] # None
                              /\ -2000 <= m.sel[1][1] /\ m.sel[1][1] <= 50000,
                          <<ts, m.sel[1][1]>>)
                 /\ Grows(icao_baro_correction, icao_baro_correction', a,
                          m.tc = 29 /\ m.baro # None
                              /\ 800 <= m.baro[1] /\ m.baro[1] <= 1100,
                          <<ts, m.baro[1]>>)
      ]_vars

\* speed 450 was stored, then speed 1200 was dropped
C6_Witness ==
    /\ line_num = 2
    /\ line_end = "done"
    /\ message_str.tc = 19
    /\ message_str.velocity # None
    /\ message_str.velocity[1] = <<1200>>
    /\ "ABCDEF" \in DOMAIN icao_speed
    /\ icao_speed["ABCDEF"] = <<<<0, 450>>>>

\* a position frame enters the pair buffer whatever its altitude
C7_PositionPart(m, a, ts) ==
    (9 <= m.tc /\ m.tc <= 18 /\ "oe_flag" \notin m.raises) =>
        \/ cpr_messages'[a][m.oe + 1] = <<m, ts>>
        \/ attempts' # attempts /\ Last(attempts').line = line_num'
                /\ (IF m.oe = 0 THEN Last(attempts').msg0 ELSE Last(attempts').msg1) = m

\* course and altitude difference are stored whatever the speed
C7_VelocityPart(m, a, ts) ==
    m.tc = 19 =>
        /\ Grows(icao_courses, icao_courses', a,
                 m.velocity # None /\ m.velocity[2] # None, <<ts, m.velocity[2][1]>>)
        /\ Grows(icao_altitude_difference, icao_altitude_difference', a,
                 m.adiff # None /\ -2500 <= m.adiff[1] /\ m.adiff[1] <= 2500,
                 <<ts, m.adiff[1]>>)

\* baro correction is stored whatever the selected altitude
C7_BaroPart(m, a, ts) ==
    m.tc = 29 =>
        Grows(icao_baro_correction, icao_baro_correction', a,
              m.baro # None /\ 800 <= m.baro[1] /\ m.baro[1] <= 1100, <<ts, m.baro[1]>>)

ModeTokens(m) == {MODE_MAP_get(m.sel[2][i]) : i \in 1..Len(m.sel[2])}

ActiveModes(callsigns, a) == Get(callsigns, a \o "_modes", {})

SelectedAltitudeStored(m) ==
    m.sel[1] # None /\ -2000 <= m.sel[1][1] /\ m.sel[1][1] <= 50000

\* C7 as stated: every field of a frame is stored independently of the
\* others: the pair buffer of the altitude, course and altitude difference
\* of the speed, and the mode tokens and the baro correction of the
\* selected altitude.
C7_FieldsIndependent ==
    [][ (ParsedStep /\ Accepted(message_str') /\ "typecode" \notin message_str'.raises) =>
          LET m == message_str'
              a == m.icao
              ts == msg_timestamp'
          IN  /\ C7_PositionPart(m, a, ts)
              /\ C7_VelocityPart(m, a, ts)
              /\ C7_BaroPart(m, a, ts)
              /\ (m.tc = 29 /\ m.sel # None) =>
                    ActiveModes(icao_callsigns', a)
                        = ActiveModes(icao_callsigns, a) \cup ModeTokens(m)
      ]_vars

\* C7 as amended: the pair buffer is independent of the altitude, course and
\* altitude difference of the speed, and the baro correction of the selected
\* altitude; but the mode tokens of a frame are unioned into active_modes
\* only if its selected altitude is present and within [-2000, 50000], and
\* are dropped with it otherwise.
C7_FieldsIndependentButModes ==
    [][ (ParsedStep /\ Accepted(message_str') /\ "typecode" \notin message_str'.raises) =>
          LET m == message_str'
              a == m.icao
              ts == msg_timestamp'
          IN  /\ C7_PositionPart(m, a, ts)
              /\ C7_VelocityPart(m, a, ts)
              /\ C7_BaroPart(m, a, ts)
              /\ ActiveModes(icao_callsigns', a)
                    = ActiveModes(icao_callsigns, a)
                        \cup (IF m.tc = 29 /\ m.sel # None /\ SelectedAltitudeStored(m)
                              THEN ModeTokens(m) ELSE {})
      ]_vars

\* a status frame with an out-of-range selected altitude: its baro
\* correction was stored, its mode token was not
C7_Witness ==
    /\ line_end = "done"
    /\ message_str.tc = 29
    /\ message_str.sel = <<<<50001>>, <<"/">>>>
    /\ "ABCDEF" \in DOMAIN icao_baro_correction
    /\ Last(icao_baro_correction["ABCDEF"]) = <<msg_timestamp, 800>>
    /\ "ABCDEF_modes" \notin DOMAIN icao_callsigns
    /\ "ABCDEF" \notin DOMAIN icao_selected_altitude

\* C8 as stated: last_seen never decreases, and first_seen <= last_seen.
C8_LastSeenMonotonic ==
    [][ \A a \in DOMAIN icao_times' :
          /\ a \in DOMAIN icao_times => icao_times'[a].last >= icao_times[a].last
          /\ icao_times'[a].first <= icao_times'[a].last
      ]_vars

NonDecreasing(seq) == \A i \in 1..(Len(seq) - 1) : seq[i] <= seq[i + 1]

\* C8 as amended: as long as the frames of an aircraft arrive with
\* non-decreasing timestamps, its last_seen does not decrease and
\* first_seen <= last_seen; when timestamps are not sorted last_seen is
\* simply that of the latest frame and may fall, also below first_seen.
C8_MonotonicWhenInOrder ==
    [][ \A a \in DOMAIN icao_times' :
          NonDecreasing(seen_ts'[a]) =>
            /\ a \in DOMAIN icao_times => icao_times'[a].last >= icao_times[a].last
            /\ icao_times'[a].first <= icao_times'[a].last
      ]_vars

\* two frames of one aircraft in timestamp order
C8_Witness ==
    /\ "ABCDEF" \in DOMAIN icao_times
    /\ seen_ts["ABCDEF"] = <<3, 13>>
    /\ icao_times["ABCDEF"] = [first |-> 3, last |-> 13]

\* C9: the first DF 17/18 frame of an address sets first_seen (and
\* last_seen) to its timestamp; every later one leaves first_seen alone and
\* sets last_seen to its timestamp, whatever its typecode stores; no other
\* step touches the map.
C9_FirstAndLastSeen ==
    [][ IF ParsedStep /\ Accepted(message_str')
        THEN LET a == message_str'.icao
                 ts == msg_timestamp'
             IN  /\ a \in DOMAIN icao_times'
                 /\ icao_times'[a].last = ts
                 /\ icao_times'[a].first
                       = IF a \in DOMAIN icao_times THEN icao_times[a].first ELSE ts
                 /\ \A b \in DOMAIN icao_times' \ {a} :
                       b \in DOMAIN icao_times /\ icao_times'[b] = icao_times[b]
        ELSE icao_times' = icao_times
      ]_vars

\* a later frame that stores no field (typecode 31) moved last_seen
C9_Witness ==
    /\ line_num = 2
    /\ message_str.tc = 31
    /\ icao_times["ABCDEF"] = [first |-> 0, last |-> 13]

\* C10: a decoded callsign that is non-empty once its non-alphanumeric
\* characters are stripped replaces the stored callsign; any other frame
\* leaves it as it is; a stored callsign is never empty and never removed.
C10_LastNonEmptyCallsign ==
    [][ \A a \in {"ABCDEF", "40621D"} :
          LET m == message_str'
              decoded ==
                  /\ ParsedStep /\ Accepted(m) /\ m.icao = a
                  /\ "typecode" \notin m.raises
                  /\ 1 <= m.tc /\ m.tc <= 4
                  /\ m.cs # None
              stripped == SelectSeq(m.cs[1], LAMBDA c : c \in Letters \cup Digits)
          IN  IF decoded /\ stripped # <<>>
              THEN a \in DOMAIN icao_callsigns' /\ icao_callsigns'[a] = stripped
              ELSE /\ a \in DOMAIN icao_callsigns' <=> a \in DOMAIN icao_callsigns
                   /\ a \in DOMAIN icao_callsigns => icao_callsigns'[a] = icao_callsigns[a]
      ]_vars

\* "KL1" was stored, then a callsign of separators only left it in place
C10_Witness ==
    /\ line_num = 2
    /\ line_end = "done"
    /\ message_str.tc = 4
    /\ message_str.cs = <<<<"_", "_">>>>
    /\ "ABCDEF" \in DOMAIN icao_callsigns
    /\ icao_callsigns["ABCDEF"] = <<"K", "L", "1">>


\* C11: active_modes of an aircraft only grows: after any step it is a
\* superset of what it was, and a status frame from which
\* get_selected_altitude yields a mode set M makes it the union of its
\* previous value and M; so after frames yielding M1..Mn it is their union.
C11_ModesAccumulate ==
    [][ \A a \in {"ABCDEF", "40621D"} :
          LET before == ActiveModes(icao_callsigns, a)
              after == ActiveModes(icao_callsigns', a)
              m == message_str'
              yields == /\ ParsedStep /\ Accepted(m) /\ m.icao = a
                        /\ get_selected_altitude(m) # None
          IN  /\ before \subseteq after
              /\ after = before \cup (IF yields THEN get_selected_altitude(m)[2] ELSE {})
      ]_vars

\* {AP}, then {VNAV, X}: both frames' tokens are held
C11_Witness ==
    /\ line_num = 2
    /\ "ABCDEF_modes" \in DOMAIN icao_callsigns
    /\ icao_callsigns["ABCDEF_modes"] = {"AP", "VNAV", "X"}
    /\ message_str.sel # None
    /\ message_str.sel[2] = <<"M", "X">>


\* the entry of key k is the same in both dictionaries (absent in both, or
\* present with the same value)
SameEntry(old, new, k) ==
    /\ (k \in DOMAIN new) = (k \in DOMAIN old)
    /\ k \in DOMAIN old => new[k] = old[k]

\* C12: a frame attributed to aircraft A changes only A's entries: for every
\* other aircraft the first/last-seen times, the callsign, the active modes,
\* every series, the selected-altitude mark and the pair buffer are as they
\* were, and the set of seen aircraft gains at most A; a pairing attempt joins
\* two frames of the aircraft of the frame that completed the pair, never
\* frames of different aircraft.
C12_OnlyOwnEntries ==
    [][ ParsedStep =>
          LET m == message_str'
              own == IF Accepted(m) THEN {m.icao} ELSE {}
          IN  /\ \A b \in ({"ABCDEF", "40621D"} \cup adsb_icao_list') \ own :
                    /\ SameEntry(icao_times, icao_times', b)
                    /\ SameEntry(icao_callsigns, icao_callsigns', b)
                    /\ SameEntry(icao_callsigns, icao_callsigns', ModesKey(b))
                    /\ SameEntry(icao_altitude, icao_altitude', b)
                    /\ SameEntry(icao_speed, icao_speed', b)
                    /\ SameEntry(icao_courses, icao_courses', b)
                    /\ SameEntry(icao_selected_altitude, icao_selected_altitude', b)
                    /\ SameEntry(icao_altitude_difference, icao_altitude_difference', b)
                    /\ SameEntry(icao_baro_correction, icao_baro_correction', b)
                    /\ SameEntry(icao_positions, icao_positions', b)
                    /\ SameEntry(icao_has_selected_alt, icao_has_selected_alt', b)
                    /\ SameEntry(cpr_messages, cpr_messages', b)
                    /\ (b \in adsb_icao_list') = (b \in adsb_icao_list)
              /\ DOMAIN cpr_messages' \subseteq DOMAIN cpr_messages \cup own
              /\ DOMAIN icao_callsigns' \subseteq
                     DOMAIN icao_callsigns \cup own \cup {ModesKey(a) : a \in own}
              /\ attempts' # attempts =>
                    /\ Last(attempts').msg0.icao = m.icao
                    /\ Last(attempts').msg1.icao = m.icao
      ]_vars

\* an even frame of one aircraft, then an odd frame of another: each waits
\* in its own buffer and no pairing is attempted
C12_Witness ==
    /\ line_num = 2
    /\ attempts = <<>>
    /\ "ABCDEF" \in DOMAIN cpr_messages /\ "40621D" \in DOMAIN cpr_messages
    /\ cpr_messages["ABCDEF"][1] # None /\ cpr_messages["ABCDEF"][2] = None
    /\ cpr_messages["40621D"][1] = None /\ cpr_messages["40621D"][2] # None


\* the sequence new is old, or old with exactly one entry appended
AppendedAtMostOne(old, new) ==
    \/ new = old
    \/ /\ Len(new) = Len(old) + 1
       /\ SubSeq(new, 1, Len(old)) = old

\* the series of every aircraft in the dictionary is extended by at most one
\* entry, and that entry carries the timestamp ts
SeriesExtended(old, new, ts) ==
    /\ DOMAIN old \subseteq DOMAIN new
    /\ \A a \in DOMAIN new :
          /\ AppendedAtMostOne(Series(old, a), new[a])
          /\ new[a] # Series(old, a) => Last(new[a])[1] = ts

\* C13: the altitude, speed, course, selected-altitude, altitude-difference,
\* baro-correction and position series are append-only in arrival order:
\* after every step each is what it was before, or that with exactly one new
\* entry (stamped with the frame's timestamp) at the end; nothing is removed,
\* reordered or rewritten.
C13_SeriesAppendOnly ==
    [][ /\ SeriesExtended(icao_altitude, icao_altitude', msg_timestamp')
        /\ SeriesExtended(icao_speed, icao_speed', msg_timestamp')
        /\ SeriesExtended(icao_courses, icao_courses', msg_timestamp')
        /\ SeriesExtended(icao_selected_altitude, icao_selected_altitude', msg_timestamp')
        /\ SeriesExtended(icao_altitude_difference, icao_altitude_difference', msg_timestamp')
        /\ SeriesExtended(icao_baro_correction, icao_baro_correction', msg_timestamp')
        /\ SeriesExtended(icao_positions, icao_positions', msg_timestamp')
      ]_vars

\* two altitudes of one aircraft, the later-arrived one with the earlier
\* timestamp: the series keeps arrival order
C13_Witness ==
    /\ "ABCDEF" \in DOMAIN icao_altitude
    /\ Len(icao_altitude["ABCDEF"]) = 2
    /\ icao_altitude["ABCDEF"][1][1] > icao_altitude["ABCDEF"][2][1]


-----------------------------------------------------------------------------
(* Properties of parse_ads_b_line (checked under SpecParse) *)

NonBlank(l, i) == l[i] \notin Whitespace

\* where the first token of the line starts and ends (0 if there is none)
FirstStart(l) ==
    IF \E i \in 1..Len(l) : NonBlank(l, i)
    THEN CHOOSE i \in 1..Len(l) : NonBlank(l, i) /\ \A j \in 1..(i - 1) : ~NonBlank(l, j)
    ELSE 0

FirstEnd(l) ==
    IF FirstStart(l) = 0 THEN 0
    ELSE CHOOSE i \in FirstStart(l)..Len(l) :
            /\ \A j \in FirstStart(l)..i : NonBlank(l, j)
            /\ i = Len(l) \/ ~NonBlank(l, i + 1)

FirstToken(l) == SubSeq(l, FirstStart(l), FirstEnd(l))

\* the characters after the first token, whitespace left out
PayloadChars(l) ==
    SelectSeq(SubSeq(l, FirstEnd(l) + 1, Len(l)), LAMBDA c : c \notin Whitespace)

NumericToken(t) == t # <<>> /\ \A i \in 1..Len(t) : t[i] \in Digits

RECURSIVE NumberOf(_)
NumberOf(t) ==
    IF t = <<>> THEN 0
    ELSE LET rest == NumberOf(Tail(t))
             digit == CHOOSE n \in 0..9 : DecimalDigits[n + 1] = Head(t)
             scale == IF Len(t) = 1 THEN 1
                      ELSE IF Len(t) = 2 THEN 10
                      ELSE IF Len(t) = 3 THEN 100
                      ELSE IF Len(t) = 4 THEN 1000
                      ELSE IF Len(t) = 5 THEN 10000
                      ELSE 100000
         IN  digit * scale + rest

HexChar(c) == c \in Digits \cup {"A", "B", "C", "D", "E", "F", "a", "b", "c", "d", "e", "f"}

UpperHex(c) == CASE c = "a" -> "A" [] c = "b" -> "B" [] c = "c" -> "C"
                 [] c = "d" -> "D" [] c = "e" -> "E" [] c = "f" -> "F"
                 [] OTHER -> c

\* the five kinds of malformed line the claim lists
Malformed(l) ==
    \/ FirstStart(l) = 0                                    \* empty line
    \/ PayloadChars(l) = <<>>                               \* fewer than two tokens
    \/ ~NumericToken(FirstToken(l))                         \* non-numeric first token
    \/ \E i \in 1..Len(PayloadChars(l)) : ~HexChar(PayloadChars(l)[i])
    \/ Len(PayloadChars(l)) % 2 = 1                         \* odd number of hex digits

\* C16 as stated: parse_ads_b_line returns None (and raises nothing) for an
\* empty line, a line of fewer than two tokens, a non-numeric first token, a
\* payload with a character outside 0-9A-F, and a payload whose hex string
\* has odd length.
C16_MalformedRejected ==
    (pc = "parsed" /\ Malformed(line)) => parsed = None

\* a payload of three hex digits comes back parsed
C16_Witness ==
    /\ pc = "parsed"
    /\ line = <<"1", " ", "a", "F", "1">>
    /\ parsed # None

\* C17: a line whose first token is numeric and whose other tokens are hex
\* digits in either case parses: the result holds the timestamp the first
\* token denotes and, as payload, the characters of the other tokens in
\* order, whitespace removed and upper-cased, so the same payload digits
\* give the same result however they are split into tokens.
C17_ParsesWellFormed ==
    (/\ pc = "parsed"
     /\ FirstStart(line) # 0
     /\ NumericToken(FirstToken(line))
     /\ PayloadChars(line) # <<>>
     /\ \A i \in 1..Len(PayloadChars(line)) : HexChar(PayloadChars(line)[i]))
    => /\ parsed # None
       /\ parsed[1].timestamp = NumberOf(FirstToken(line))
       /\ parsed[1].message_str =
              [i \in 1..Len(PayloadChars(line)) |-> UpperHex(PayloadChars(line)[i])]

\* "1 a F": two one-digit tokens, lower and upper case, give the payload AF
C17_Witness ==
    /\ pc = "parsed"
    /\ line = <<"1", " ", "a", " ", "F">>
    /\ parsed # None
    /\ parsed[1].message_str = <<"A", "F">>
    /\ parsed[1].timestamp = 1


-----------------------------------------------------------------------------
(* Properties of the lines the loop drops *)

\* everything the aggregation keeps: the dictionaries, the set of aircraft
\* and the pair buffers
Aggregated ==
    <<icao_times, icao_altitude, icao_speed, icao_callsigns, icao_selected_altitude,
      icao_altitude_difference, icao_baro_correction, icao_has_selected_alt,
      adsb_icao_list, icao_positions, icao_courses, cpr_messages>>

\* C18: a line that is blank or fails to parse is skipped without ending the
\* run: the dictionaries, the set of aircraft and the pair buffers are as
\* they were and the loop is still reading, so the lines after it meet the
\* state they would have met had the line not been there.
C18_UnparsableLineSkipped ==
    [][ (line_num' # line_num /\ line_end' = "skipped") =>
          /\ Aggregated' = Aggregated
          /\ pc' = "ingest"
          /\ stdout' = stdout
      ]_vars

\* a position frame waits in the buffer, then a line is skipped
C18_Witness ==
    /\ line_num = 2
    /\ line_end = "skipped"
    /\ "ABCDEF" \in DOMAIN cpr_messages
    /\ cpr_messages["ABCDEF"][1] # None
    /\ "ABCDEF" \in DOMAIN icao_altitude


\* C20: a parsed frame whose downlink format or address cannot be decoded,
\* or whose downlink format is neither 17 nor 18, changes nothing: the set of
\* aircraft, the first/last-seen times, every series, the callsigns and modes
\* and the pair buffers are as they were.
C20_NonAdsbFrameNoEffect ==
    [][ (/\ ParsedStep
         /\ \/ message_str'.raises \cap {"df", "icao"} # {}
            \/ message_str'.df \notin {17, 18})
        => Aggregated' = Aggregated
      ]_vars

\* a DF 11 frame of an aircraft that has a position frame waiting
C20_Witness ==
    /\ line_num = 2
    /\ line_end = "not_adsb"
    /\ message_str.df = 11
    /\ message_str.icao \in DOMAIN cpr_messages
    /\ cpr_messages[message_str.icao] # EmptySlots


-----------------------------------------------------------------------------
(* Properties of a whole run (checked under SpecRun) *)

\* the rows of the summary table that has been printed
PrintedRows ==
    LET items == SelectSeq(stdout, LAMBDA item : item[1] = "row")
    IN  [i \in 1..Len(items) |-> items[i][2]]

\* every key of the aggregation is the address a (or its modes key)
OnlyKeysOf(a) ==
    /\ adsb_icao_list \subseteq {a}
    /\ DOMAIN icao_times \subseteq {a}
    /\ DOMAIN icao_altitude \subseteq {a}
    /\ DOMAIN icao_speed \subseteq {a}
    /\ DOMAIN icao_courses \subseteq {a}
    /\ DOMAIN icao_selected_altitude \subseteq {a}
    /\ DOMAIN icao_altitude_difference \subseteq {a}
    /\ DOMAIN icao_baro_correction \subseteq {a}
    /\ DOMAIN icao_positions \subseteq {a}
    /\ DOMAIN icao_has_selected_alt \subseteq {a}
    /\ DOMAIN icao_callsigns \subseteq {a, ModesKey(a)}
    /\ DOMAIN cpr_messages \subseteq {a}

\* C14: with the aircraft filter set, a frame whose address is not the
\* upper-cased filter value changes no state, so at any time the set of
\* aircraft, the first/last-seen map, every series map, the callsign/modes
\* map and the pair buffers hold no key but the filtered address, and the
\* summary has at most one row, that of the filtered address.
C14_FilterKeepsOthersOut ==
    /\ [](args_aircraft \in {Some("abcdef"), Some("40621D")} =>
            LET a == IF args_aircraft = Some("abcdef") THEN "ABCDEF" ELSE "40621D"
            IN  /\ OnlyKeysOf(a)
                /\ Len(PrintedRows) <= 1
                /\ \A i \in 1..Len(PrintedRows) : PrintedRows[i].icao = a)
    /\ [][ (/\ args_aircraft \in {Some("abcdef"), Some("40621D")}
            /\ ParsedStep
            /\ message_str'.icao #
                  (IF args_aircraft = Some("abcdef") THEN "ABCDEF" ELSE "40621D"))
           => Aggregated' = Aggregated
         ]_vars

\* the filter given in lower case: a frame of ABCDEF is kept, then a frame
\* of 40621D is dropped, and the summary has the one row
C14_Witness ==
    /\ args_aircraft = Some("abcdef")
    /\ pc = "done"
    /\ line_num = 2
    /\ line_end = "filtered"
    /\ message_str.icao = "40621D"
    /\ adsb_icao_list = {"ABCDEF"}
    /\ Len(PrintedRows) = 1


\* address a sorts before address b (string comparison of the addresses of
\* the model)
AddressBefore(a, b) == a = "40621D" /\ b = "ABCDEF"

FlagSet(flag, series, a) == (flag = "Da") <=> (Series(series, a) # <<>>)

C19_NoTableOnFailure ==
    /\ pc \in {"ingest", "done", "failed"}
    /\ pc = "ingest" => stdout = <<>>
    /\ pc = "failed" =>
          /\ Len(stdout) = 1
          /\ stdout[1][1] \in {"not_found", "critical"}
    /\ (\E i \in 1..Len(stdout) : stdout[i][1] \in {"header", "row", "total"}) =>
          pc = "done"

\* the read fails on the third line, after two frames have been aggregated
C19_Witness ==
    /\ pc = "failed"
    /\ line_num = 2
    /\ adsb_icao_list # {}
    /\ stdout = <<<<"critical", "UnicodeDecodeError">>>>


\* the addresses that have an entry in a series, a callsign, a set of
\* active modes or a pair buffer
AddressesWithData ==
    DOMAIN icao_altitude \cup DOMAIN icao_speed \cup DOMAIN icao_courses
        \cup DOMAIN icao_selected_altitude \cup DOMAIN icao_altitude_difference
        \cup DOMAIN icao_baro_correction \cup DOMAIN icao_positions
        \cup DOMAIN icao_has_selected_alt \cup DOMAIN cpr_messages
        \cup {a \in {"ABCDEF", "40621D"} :
                 a \in DOMAIN icao_callsigns \/ ModesKey(a) \in DOMAIN icao_callsigns}

PrintedTotals ==
    LET items == SelectSeq(stdout, LAMBDA item : item[1] = "total")
    IN  [i \in 1..Len(items) |-> items[i][2]]

\* C21: at every point of the ingestion the set of observed aircraft is the
\* key set of the first/last-seen map, and every address with a series
\* entry, a callsign, active modes or a pair buffer is in it (every key of
\* the callsign map is such an address or its modes key); so the table has a
\* row for every observed aircraft and the total printed under it is the
\* number of rows.
C21_ObservedIsKeySet ==
    /\ adsb_icao_list = DOMAIN icao_times
    /\ AddressesWithData \subseteq adsb_icao_list
    /\ DOMAIN icao_callsigns \subseteq
           adsb_icao_list \cup {ModesKey(a) : a \in adsb_icao_list}
    /\ pc = "done" =>
          /\ {PrintedRows[i].icao : i \in 1..Len(PrintedRows)} = adsb_icao_list
          /\ PrintedTotals = <<Len(PrintedRows)>>

\* two aircraft, the frame of one of them abandoned at its first decoder
\* call: both have a row and the total is 2
C21_Witness ==
    /\ pc = "done"
    /\ line_end = "raised"
    /\ AddressesWithData # adsb_icao_list
    /\ Len(PrintedRows) = 2
    /\ PrintedTotals = <<2>>


-----------------------------------------------------------------------------
(* Further properties of the pairing (checked under SpecCpr, where every
   accepted frame is a position frame) *)

\* resolve_position was called in the attempt (the pair was fresh)
Resolving(at) == at.outcome # "stale"

\* the attempts in which the frame of line ln was passed to resolve_position
CallsWith(ln) == {i \in 1..Len(attempts) : Resolving(attempts[i]) /\ ln \in LinesOf(attempts[i])}

\* C22: in a run in which resolve_position always returns (coordinates or
\* none), every position frame is passed to resolve_position at most once,
\* and for every aircraft twice the number of its position entries is at most
\* the number of its position frames processed.
C22_FramePassedAtMostOnce ==
    /\ (\A i \in 1..Len(attempts) : attempts[i].outcome # "raise") =>
          \A ln \in 1..line_num : Cardinality(CallsWith(ln)) <= 1
    /\ \A a \in DOMAIN icao_positions :
          2 * Len(icao_positions[a]) <= Len(Series(seen_ts, a))

\* a stale pair, then a fresh one that takes over a frame of the stale one:
\* that frame was in two attempts but passed to resolve_position once
C22_Witness ==
    /\ Len(attempts) = 2
    /\ attempts[1].outcome = "stale"
    /\ attempts[2].outcome \in {"coords", "none"}
    /\ \E ln \in LinesOf(attempts[1]) \cap LinesOf(attempts[2]) :
          Cardinality(CallsWith(ln)) = 1


-----------------------------------------------------------------------------
(* Properties of a frame whose extraction is cut short (checked under Spec) *)

\* the altitude series of a after a position frame m stamped ts was read
AltitudeKept(old, new, m, ts) ==
    Grows(old, new, m.icao,
          /\ "altitude" \notin m.raises
          /\ m.alt # None
          /\ -1000 <= m.alt[1] /\ m.alt[1] <= 50000,
          <<ts, m.alt[1]>>)

\* C23: when pms.adsb.typecode, pms.adsb.oe_flag or pms.adsb.position raises
\* for a DF 17/18 frame, the loop goes on to the next line and what the
\* frame had written stays: the aircraft is observed and its last-seen time
\* is the frame's; after a failed oe_flag the altitude append and the buffer
\* created for the aircraft stay and no slot is written; after a failed
\* resolve_position the altitude append and the slot write stay, both slots
\* are filled and no position entry is added.  Nothing else changes.
C23_NoRollback ==
    [][ (ParsedStep /\ Accepted(message_str') /\ line_end' = "raised") =>
          LET m == message_str'
              a == m.icao
              ts == msg_timestamp'
              unchanged_but(altitude, buffer) ==
                  /\ altitude \/ icao_altitude' = icao_altitude
                  /\ buffer \/ cpr_messages' = cpr_messages
                  /\ icao_speed' = icao_speed
                  /\ icao_courses' = icao_courses
                  /\ icao_callsigns' = icao_callsigns
                  /\ icao_selected_altitude' = icao_selected_altitude
                  /\ icao_altitude_difference' = icao_altitude_difference
                  /\ icao_baro_correction' = icao_baro_correction
                  /\ icao_has_selected_alt' = icao_has_selected_alt
                  /\ icao_positions' = icao_positions
          IN  /\ pc' = "ingest"
              /\ a \in adsb_icao_list'
              /\ icao_times'[a].last = ts
              /\ icao_times'[a].first =
                    (IF a \in DOMAIN icao_times THEN icao_times[a].first ELSE ts)
              /\ "typecode" \in m.raises => unchanged_but(FALSE, FALSE)
              /\ "oe_flag" \in m.raises =>
                    /\ unchanged_but(TRUE, TRUE)
                    /\ AltitudeKept(icao_altitude, icao_altitude', m, ts)
                    /\ cpr_messages'[a] = Get(cpr_messages, a, EmptySlots)
              /\ m.raises \cap {"typecode", "oe_flag"} = {} =>
                    /\ unchanged_but(TRUE, TRUE)
                    /\ AltitudeKept(icao_altitude, icao_altitude', m, ts)
                    /\ AllSlots(cpr_messages'[a])
                    /\ cpr_messages'[a][m.oe + 1] = <<m, ts>>
                    /\ cpr_messages'[a][2 - m.oe] = cpr_messages[a][2 - m.oe]
                    /\ PairRaises(cpr_messages'[a])
      ]_vars

\* resolve_position raised for the pair the second line completed: the
\* altitude of that line is in the series and both slots are filled
C23_Witness ==
    /\ line_num = 2
    /\ line_end = "raised"
    /\ AttemptNow
    /\ Last(attempts).outcome = "raise"
    /\ AllSlots(cpr_messages["ABCDEF"])
    /\ Len(icao_altitude["ABCDEF"]) = 2
    /\ icao_times["ABCDEF"].last = msg_timestamp
    /\ "ABCDEF" \notin DOMAIN icao_positions


-----------------------------------------------------------------------------
(* Properties of the graph window (checked under SpecGraph) *)

\* the two indices after the i-th event
IndexAfter(i) == IF i = Len(clicks) THEN icao_index ELSE clicks[i + 1].icao_index
ModeAfter(i) == IF i = Len(clicks) THEN plot_mode_idx ELSE clicks[i + 1].plot_mode_idx

\* one step forward and one step back among n positions, with wrap-around
StepUp(i, n) == IF i = n - 1 THEN 0 ELSE i + 1
StepDown(i, n) == IF i = 0 THEN n - 1 ELSE i - 1

Inverse(h1, h2) ==
    \/ {h1, h2} = {"next_icao", "prev_icao"}
    \/ {h1, h2} = {"next_mode", "prev_mode"}

\* C24: with a non-empty aircraft list, whatever buttons are clicked and
\* keys pressed, icao_index stays in 0..len(icao_list)-1 and plot_mode_idx in
\* 0..7; next steps one up and prev one down, wrapping at the ends (the right
\* and left keys act as next and prev aircraft, up and down as next and prev
\* mode, any other key as nothing); an aircraft event leaves plot_mode_idx
\* and a mode event icao_index as it was; next directly followed by prev, or
\* prev by next, restores both indices.
C24_IndexNavigation ==
    icao_list # <<>> =>
        LET n == Len(icao_list)
        IN  /\ icao_index \in 0..(n - 1)
            /\ plot_mode_idx \in 0..7
            /\ \A i \in 1..Len(clicks) :
                  LET c == clicks[i]
                  IN  /\ c.event = "right" => c.handler = "next_icao"
                      /\ c.event = "left" => c.handler = "prev_icao"
                      /\ c.event = "up" => c.handler = "next_mode"
                      /\ c.event = "down" => c.handler = "prev_mode"
                      /\ c.event = "a" => c.handler = "none"
                      /\ IndexAfter(i) =
                            (IF c.handler = "next_icao" THEN StepUp(c.icao_index, n)
                             ELSE IF c.handler = "prev_icao" THEN StepDown(c.icao_index, n)
                             ELSE c.icao_index)
                      /\ ModeAfter(i) =
                            (IF c.handler = "next_mode" THEN StepUp(c.plot_mode_idx, 8)
                             ELSE IF c.handler = "prev_mode" THEN StepDown(c.plot_mode_idx, 8)
                             ELSE c.plot_mode_idx)
            /\ \A i \in 1..(Len(clicks) - 1) :
                  Inverse(clicks[i].handler, clicks[i + 1].handler) =>
                      /\ IndexAfter(i + 1) = clicks[i].icao_index
                      /\ ModeAfter(i + 1) = clicks[i].plot_mode_idx

\* three aircraft: prev from the first wraps to the last, next wraps back,
\* and a mode step down from 0 gives 7
C24_Witness ==
    /\ Len(icao_list) = 3
    /\ Len(clicks) = 3
    /\ clicks[1].handler = "prev_icao" /\ clicks[1].icao_index = 0
    /\ clicks[2].handler = "next_icao" /\ clicks[2].icao_index = 2
    /\ clicks[3].event = "down" /\ clicks[3].icao_index = 0
    /\ icao_index = 0
    /\ plot_mode_idx = 7

====
